---- MODULE Spec2Model ----
(***************************************************************************)
(* Model of examples/callbackHttpMqtt/log_receiver.py: the LogReceiver     *)
(* request handler (do_POST, do_GET, _process_log_entry) run by a          *)
(* single-threaded HTTPServer.serve_forever loop.                          *)
(*                                                                         *)
(* Text is a sequence of characters.  Every element of such a sequence is  *)
(* one character, written as a string: "A" is the letter A, ESC is the     *)
(* escape character \033, LF the line feed, SP the space.                  *)
(***************************************************************************)
EXTENDS Integers, Sequences, FiniteSets, TLC

\* ------------------------------------------------------------------ bounds
MaxRequests == 3      \* requests that arrive over a run
MaxWaiting == 2       \* connections waiting in the listen queue at once

\* -------------------------------------------------------------- characters
ESC == "ESC"
LF == "LF"
SP == " "

NA == <<"N", "/", "A">>

DigitChars == <<"0", "1", "2", "3", "4", "5", "6", "7", "8", "9">>

RECURSIVE IntStr(_)
\* str(n) of a non-negative int
IntStr(n) ==
    IF n < 10 THEN <<DigitChars[n + 1]>>
    ELSE IntStr(n \div 10) \o <<DigitChars[(n % 10) + 1]>>

RECURSIVE Repeat(_, _)
Repeat(c, k) == IF k <= 0 THEN <<>> ELSE <<c>> \o Repeat(c, k - 1)

\* f"{n:04d}": zero-padded on the left to width 4, never truncated
Pad04d(n) == Repeat("0", 4 - Len(IntStr(n))) \o IntStr(n)

\* f"{s:8s}" of a str: space-padded on the right to width 8, never truncated
Pad8s(s) == s \o Repeat(SP, 8 - Len(s))

Contains(text, c) == \E i \in 1..Len(text) : text[i] = c

Count(text, c) == Cardinality({i \in 1..Len(text) : text[i] = c})

EndsWith(text, suffix) ==
    /\ Len(suffix) <= Len(text)
    /\ SubSeq(text, Len(text) - Len(suffix) + 1, Len(text)) = suffix

\* ------------------------------------------------------------- JSON values
\* What json.loads hands back for a field value: a Python str, int, None or
\* list of ints.  One record shape for all of them.
JStr(s) == [t |-> "str", s |-> s, n |-> 0, l |-> <<>>]
JInt(n) == [t |-> "int", s |-> <<>>, n |-> n, l |-> <<>>]
JNull == [t |-> "null", s |-> <<>>, n |-> 0, l |-> <<>>]
JList(l) == [t |-> "list", s |-> <<>>, n |-> 0, l |-> l]

RECURSIVE JoinInts(_)
\* ", ".join(repr(x) for x in l), l a list of ints
JoinInts(l) ==
    IF l = <<>> THEN <<>>
    ELSE IF Len(l) = 1 THEN IntStr(l[1])
    ELSE IntStr(l[1]) \o <<",", SP>> \o JoinInts(Tail(l))

\* str(v), as an f-string field without a format spec renders v
PyStr(v) ==
    CASE v.t = "str" -> v.s
      [] v.t = "int" -> IntStr(v.n)
      [] v.t = "null" -> <<"N", "o", "n", "e">>
      [] v.t = "list" -> <<"[">> \o JoinInts(v.l) \o <<"]">>

\* ---------------------------------------------------------------- log_data
Keys == {"timestamp", "millis", "level", "core", "file", "function", "line", "message"}

\* A request body as the handler sees it once read: what decoding and
\* json.loads make of it, and its length in bytes.
\*   "object": a JSON object with the keys `keys`, valued by `vals`
\*   "array", "number", "string", "null": valid JSON, not an object
\*   "garbage": valid UTF-8 that is not JSON     "badutf8": not valid UTF-8
\*   "empty": no bytes at all
NoVals == [k \in Keys |-> JNull]

Obj(keys, vals, len) == [kind |-> "object", keys |-> keys, vals |-> vals, len |-> len]
Raw(kind, len) == [kind |-> kind, keys |-> {}, vals |-> NoVals, len |-> len]

T_INFO == <<"I", "N", "F", "O">>
T_ERROR == <<"E", "R", "R", "O", "R">>
T_DEBUG == <<"D", "E", "B", "U", "G">>

FullVals ==
    [k \in Keys |->
        CASE k = "timestamp" -> JStr(<<"1", "2", ":", "0", "0">>)
          [] k = "millis" -> JInt(123)
          [] k = "level" -> JStr(T_INFO)
          [] k = "core" -> JInt(0)
          [] k = "file" -> JStr(<<"a", ".", "c">>)
          [] k = "function" -> JStr(<<"g", "o">>)
          [] k = "line" -> JInt(10)
          [] k = "message" -> JStr(<<"b", "o", "o", "t">>)]

B_Full == Obj(Keys, FullVals, 120)
B_Empty == Obj({}, NoVals, 2)
\* {"timestamp": .., "level": "ERROR", "file": .., "line": null}
B_HalfA ==
    Obj({"timestamp", "level", "file", "line"},
        [FullVals EXCEPT !["level"] = JStr(T_ERROR), !["line"] = JNull], 60)
\* {"millis": .., "core": .., "function": .., "message": ..}
B_HalfB == Obj({"millis", "core", "function", "message"}, FullVals, 60)
\* {"message": "a\nb"}
B_MsgLF == Obj({"message"}, [FullVals EXCEPT !["message"] = JStr(<<"a", LF, "b">>)], 18)
\* {"level": "DEBUG", "message": "\u001b[31mx"}
B_MsgESC ==
    Obj({"level", "message"},
        [FullVals EXCEPT !["level"] = JStr(T_DEBUG),
                         !["message"] = JStr(<<ESC, "[", "3", "1", "m", "x">>)], 40)
\* {"level": 5}, {"level": null}, {"level": [1]}
B_LevelInt == Obj({"level"}, [FullVals EXCEPT !["level"] = JInt(5)], 12)
B_LevelNull == Obj({"level"}, [FullVals EXCEPT !["level"] = JNull], 15)
B_LevelList == Obj({"level"}, [FullVals EXCEPT !["level"] = JList(<<1>>)], 14)
B_Array == Raw("array", 3)          \* [1]
B_Number == Raw("number", 1)        \* 5
B_String == Raw("string", 3)        \* "s"
B_Null == Raw("null", 4)            \* null
B_Garbage == Raw("garbage", 8)      \* not json
B_BadUtf8 == Raw("badutf8", 1)      \* the byte 0xff
B_NoBytes == Raw("empty", 0)

ObjectBodies ==
    {B_Full, B_Empty, B_HalfA, B_HalfB, B_MsgLF, B_MsgESC,
     B_LevelInt, B_LevelNull, B_LevelList}

Bodies ==
    ObjectBodies \cup {B_Array, B_Number, B_String, B_Null, B_Garbage, B_BadUtf8, B_NoBytes}

\* ---------------------------------------------------------------- requests
\* target: the request target, split at the "?" as urlparse splits it.
Target(path, query) == [path |-> path, query |-> query]

\* hdr: the Content-Length header is "absent", "nonint" (not an integer
\* literal) or "int" with value cl.  broken: the client has gone away, so
\* writing the response to the socket raises.
Req(method, target, hdr, cl, body, broken) ==
    [method |-> method, target |-> target, hdr |-> hdr, cl |-> cl,
     body |-> body, broken |-> broken]

NoReq == Req("", Target("", ""), "absent", 0, B_NoBytes, FALSE)

PostReq(target, body) == Req("POST", target, "int", body.len, body, FALSE)
GetReq(target) == Req("GET", target, "absent", 0, B_NoBytes, FALSE)

Requests ==
    {PostReq(Target("/test", ""), b) : b \in Bodies}
        \cup {PostReq(Target("/test", "x=1"), B_Empty), PostReq(Target("/other", ""), B_Full),
              Req("POST", Target("/test", ""), "absent", 0, B_Full, FALSE),
              Req("POST", Target("/test", ""), "int", 0, B_Full, FALSE),
              Req("POST", Target("/test", ""), "nonint", 0, B_Full, FALSE),
              Req("POST", Target("/test", ""), "int", B_Full.len + 1, B_Full, FALSE),
              Req("POST", Target("/test", ""), "int", B_Garbage.len + 1, B_Garbage, FALSE),
              Req("POST", Target("/test", ""), "int", B_Full.len - 1, B_Full, FALSE),
              Req("POST", Target("/test", ""), "int", -1, B_Empty, FALSE),
              GetReq(Target("/status", "")), GetReq(Target("/status", "x=1")),
              GetReq(Target("/other", ""))}

\* ----------------------------------------------------- _process_log_entry
\* log_data.get(key, default) with the default lost: an absent key reads ""
DictGet_EmptyDefault(log_data, key, default) ==
    IF key \in log_data.keys THEN log_data.vals[key] ELSE JStr(<<>>)

\* log_data.get(key, default)
DictGet(log_data, key, default) ==
    IF key \in log_data.keys THEN log_data.vals[key] ELSE default

\* colors.get(level, ''): the escape sequence of a known level name
Colors(name) ==
    CASE name = <<"V", "E", "R", "B", "O", "S", "E">> -> <<ESC, "[", "3", "7", "m">>
      [] name = T_DEBUG -> <<ESC, "[", "3", "6", "m">>
      [] name = T_INFO -> <<ESC, "[", "3", "2", "m">>
      [] name = <<"W", "A", "R", "N", "I", "N", "G">> -> <<ESC, "[", "3", "3", "m">>
      [] name = T_ERROR -> <<ESC, "[", "3", "1", "m">>
      [] name = <<"F", "A", "T", "A", "L">> -> <<ESC, "[", "3", "5", "m">>
      [] OTHER -> <<>>

reset_color == <<ESC, "[", "0", "m">>

\* colors.get(level, '') hashes level: a list is unhashable
ColorExc(level) == IF level.t = "list" THEN "TypeError" ELSE ""

Color(level) == IF level.t = "str" THEN Colors(level.s) ELSE <<>>

\* f"{level:8s}" is defined for str only: int raises ValueError, None and
\* list raise TypeError
LevelExc(level) ==
    CASE level.t = "str" -> ""
      [] level.t = "int" -> "ValueError"
      [] OTHER -> "TypeError"

\* the location string decided by the value of line: null counts as absent
Location_ByValue(log_data, file, function, line) ==
    IF "line" \in log_data.keys /\ line.t # "null"
    THEN PyStr(file) \o <<":">> \o PyStr(function) \o <<":">> \o PyStr(line)
    ELSE PyStr(file) \o <<":">> \o PyStr(function)

\* the location string: 'line' in log_data decides, not the value of line
Location(log_data, file, function, line) ==
    IF "line" \in log_data.keys
    THEN PyStr(file) \o <<":">> \o PyStr(function) \o <<":">> \o PyStr(line)
    ELSE PyStr(file) \o <<":">> \o PyStr(function)

\* the part console_output and file_output share
EntryText(count, timestamp, millis, level, core, location, message) ==
    <<"[">> \o Pad04d(count) \o <<"]", SP>>
        \o <<"[">> \o PyStr(timestamp) \o <<"]", SP>>
        \o <<"[">> \o PyStr(millis) \o <<SP, "m", "s", "]", SP>>
        \o <<"[">> \o Pad8s(PyStr(level)) \o <<"]", SP>>
        \o <<"[", "C", "o", "r", "e", SP>> \o PyStr(core) \o <<"]", SP>>
        \o <<"[">> \o location \o <<"]", SP>>
        \o PyStr(message)

\* A line print() put on the console: which print statement wrote it, the
\* text of a log entry, the exception an error line reports.
ConsoleLine(tag, text, e) == [tag |-> tag, text |-> text, e |-> e]

\* the file sink without its try/except: the OSError leaves _process_log_entry
FileSink_Raise(save, ffail, file_output) ==
    IF ~save THEN [app |-> <<>>, wrote |-> "none", out |-> <<>>, exc |-> ""]
    ELSE IF ffail
    THEN [app |-> <<>>, wrote |-> "failed", out |-> <<>>, exc |-> "OSError"]
    ELSE [app |-> file_output, wrote |-> "ok", out |-> <<>>, exc |-> ""]

\* the file sink: open(..., 'a') and write inside try/except Exception.
\* ffail: open or write raises OSError.
FileSink(save, ffail, file_output) ==
    IF ~save THEN [app |-> <<>>, wrote |-> "none", out |-> <<>>, exc |-> ""]
    ELSE IF ffail
    THEN [app |-> <<>>, wrote |-> "failed",
          out |-> <<ConsoleLine("file_error", <<>>, "OSError")>>, exc |-> ""]
    ELSE [app |-> file_output, wrote |-> "ok", out |-> <<>>, exc |-> ""]

Raised(count, e) ==
    [count |-> count, out |-> <<>>, app |-> <<>>, wrote |-> "none", exc |-> e]

\* print(console_output), then what the file sink did
Emitted(count, console_output, sink) ==
    [count |-> count,
     out |-> <<ConsoleLine("entry", console_output, "")>> \o sink.out,
     app |-> sink.app, wrote |-> sink.wrote, exc |-> sink.exc]

\* console_output and file_output around the text they share
Emit(count, color, text, save, ffail) ==
    Emitted(count, color \o text \o reset_color,
            FileSink(save, ffail, text \o <<LF>>))

\* _process_log_entry from the colour lookup on; f holds the extracted fields
FormatEntry(log_data, count, f, save, ffail) ==
    IF ColorExc(f.level) # "" THEN Raised(count, ColorExc(f.level))
    ELSE IF LevelExc(f.level) # "" THEN Raised(count, LevelExc(f.level))
    ELSE Emit(count, Color(f.level),
              EntryText(count, f.timestamp, f.millis, f.level, f.core,
                        Location(log_data, f.file, f.function, f.line), f.message),
              save, ffail)

\* the eight log_data.get(key, 'N/A') of _process_log_entry
ExtractFields(log_data) ==
    [timestamp |-> DictGet(log_data, "timestamp", JStr(NA)),
     millis |-> DictGet(log_data, "millis", JStr(NA)),
     level |-> DictGet(log_data, "level", JStr(NA)),
     core |-> DictGet(log_data, "core", JStr(NA)),
     file |-> DictGet(log_data, "file", JStr(NA)),
     function |-> DictGet(log_data, "function", JStr(NA)),
     line |-> DictGet(log_data, "line", JStr(NA)),
     message |-> DictGet(log_data, "message", JStr(NA))]

\* _process_log_entry(log_data) with LogReceiver.log_count = count: the
\* counter goes up first; .get on anything but a dict raises AttributeError
ProcessLogEntry(log_data, count, save, ffail) ==
    IF log_data.kind # "object" THEN Raised(count + 1, "AttributeError")
    ELSE FormatEntry(log_data, count + 1, ExtractFields(log_data), save, ffail)

\* ----------------------------------------------------------------- do_POST
\* What the handler last passed to send_response / send_error, and the body
\* that goes with it: status 0 is "nothing sent".
Response(status, body, msg, e, logs_received, saving_to_file) ==
    [status |-> status, body |-> body, msg |-> msg, e |-> e,
     logs_received |-> logs_received, saving_to_file |-> saving_to_file]

NoResponse == Response(0, "", "", "", 0, FALSE)

\* send_error(status, msg): an error response without statistics
SendError(status, msg, e) == Response(status, "error", msg, e, 0, FALSE)

\* writing a response to a connection the client has dropped raises
WriteExc(req) == IF req.broken THEN "BrokenPipeError" ELSE ""

\* urlparse(self.path).path
UrlPath(target) == target.path

\* self.path, the target as the request line has it, compared with a route
PathIs(target, route) == target.path = route /\ target.query = ""

\* int(self.headers.get('Content-Length', 0)), for a header that parses
ContentLength(req) == IF req.hdr = "absent" THEN 0 ELSE req.cl

\* self.rfile.read(n) returns once n bytes have arrived or the client has
\* closed its sending side; read(-1) returns only at end of stream.
ReadReady(req, clientClosed) ==
    IF ContentLength(req) < 0 THEN clientClosed
    ELSE req.body.len >= ContentLength(req) \/ clientClosed

\* the bytes read(n) returns; a proper prefix of a body used here is not JSON
Read(body, n) ==
    IF n < 0 \/ n >= body.len THEN body ELSE Raw("garbage", n)

\* do_POST blocks only in rfile.read, reached on /test with a length # 0
PostReady(req, clientClosed) ==
    \/ UrlPath(req.target) # "/test"
    \/ req.hdr = "nonint"
    \/ ContentLength(req) = 0
    \/ ReadReady(req, clientClosed)

Outcome(count, out, app, wrote, response, exc) ==
    [count |-> count, out |-> out, app |-> app, wrote |-> wrote,
     response |-> response, exc |-> exc]

\* the end of the try block: _process_log_entry has returned or raised
Processed(p, req) ==
    IF p.exc # ""
    THEN Outcome(p.count, p.out, p.app, p.wrote, NoResponse, p.exc)
    ELSE Outcome(p.count, p.out, p.app, p.wrote,
                 Response(200, "success", "Log received", "", 0, FALSE),
                 WriteExc(req))

\* the try block from json.loads on, post_data read
Parsed(log_data, req, count, save, ffail) ==
    IF log_data.kind = "badutf8"
    THEN Outcome(count, <<>>, <<>>, "none", NoResponse, "UnicodeDecodeError")
    ELSE IF log_data.kind \in {"garbage", "empty"}
    THEN Outcome(count, <<>>, <<>>, "none",
                 SendError(400, "Invalid JSON", "JSONDecodeError"), WriteExc(req))
    ELSE Processed(ProcessLogEntry(log_data, count, save, ffail), req)

\* the body of the try block of do_POST; exc is what it raised, if anything
PostTry(req, count, save, ffail) ==
    IF UrlPath(req.target) # "/test"
    THEN Outcome(count, <<>>, <<>>, "none",
                 SendError(404, "Endpoint not found", ""), WriteExc(req))
    ELSE IF req.hdr = "nonint"
    THEN Outcome(count, <<>>, <<>>, "none", NoResponse, "ValueError")
    ELSE IF ContentLength(req) = 0
    THEN Outcome(count, <<>>, <<>>, "none",
                 SendError(400, "Empty request body", ""), WriteExc(req))
    ELSE Parsed(Read(req.body, ContentLength(req)), req, count, save, ffail)

\* the except Exception clause of do_POST around the try block's outcome t.
\* failure: the exception the clause caught.  escaped: an exception left
\* the handler (send_error itself raised on a dropped connection).
PostExcept(t, broken) ==
    IF t.exc = ""
    THEN [count |-> t.count, out |-> t.out, app |-> t.app, wrote |-> t.wrote,
          response |-> t.response, failure |-> "", escaped |-> FALSE]
    ELSE [count |-> t.count,
          out |-> t.out \o <<ConsoleLine("request_error", <<>>, t.exc)>>,
          app |-> t.app, wrote |-> t.wrote,
          response |-> SendError(500, "Internal server error", t.exc),
          failure |-> t.exc, escaped |-> broken]

DoPost(req, count, save, ffail) ==
    PostExcept(PostTry(req, count, save, ffail), req.broken)

\* ------------------------------------------------------------------ do_GET
\* do_GET has no try block: an exception leaves the handler as it is.
DoGet(req, count, save) ==
    [response |->
        IF PathIs(req.target, "/status")
        THEN Response(200, "status", "running", "", count, save)
        ELSE SendError(404, "Endpoint not found. Try /status for server info", ""),
     failure |-> WriteExc(req), escaped |-> req.broken]

\* ------------------------------------------------------------------- state
VARIABLES
    log_count,      \* LogReceiver.log_count
    save_to_file,   \* LogReceiver.save_to_file, set once by main
    file,           \* the content of the file log_filename names
    console,        \* the lines print() wrote while handling the latest request
    pc,             \* "idle": serve_forever waits for a connection; "busy": in a handler
    cur,            \* the request being handled, or the one handled last
    clientClosed,   \* the client of cur has closed its sending side
    waiting,        \* connections in the listen queue
    arrived,        \* connections made so far
    response,       \* what the handler of cur last sent
    failure,        \* the exception that ended the handler's normal path
    escaped,        \* an exception left the handler of cur
    wrote,          \* the file append of cur: "none", "ok" or "failed"
    count0,         \* log_count when cur was accepted
    file0,          \* file when cur was accepted
    ok200,          \* POSTs to /test answered 200 so far
    fileFailures    \* file appends that have failed so far

vars ==
    <<log_count, save_to_file, file, console, pc, cur, clientClosed, waiting,
      arrived, response, failure, escaped, wrote, count0, file0, ok200, fileFailures>>

Init ==
    /\ log_count = 0
    /\ save_to_file \in BOOLEAN
    /\ file = <<>>
    /\ console = <<>>
    /\ pc = "idle"
    /\ cur = NoReq
    /\ clientClosed = FALSE
    /\ waiting = 0
    /\ arrived = 0
    /\ response = NoResponse
    /\ failure = ""
    /\ escaped = FALSE
    /\ wrote = "none"
    /\ count0 = 0
    /\ file0 = <<>>
    /\ ok200 = 0
    /\ fileFailures = 0

\* a client connects to the listening socket
Connect ==
    /\ arrived < MaxRequests
    /\ waiting < MaxWaiting
    /\ arrived' = arrived + 1
    /\ waiting' = waiting + 1
    /\ UNCHANGED <<log_count, save_to_file, file, console, pc, cur, clientClosed,
                   response, failure, escaped, wrote, count0, file0, ok200,
                   fileFailures>>

\* serve_forever takes the next connection and reads its request line and
\* headers; the handler for it starts
Accept(reqs) ==
    /\ pc = "idle"
    /\ waiting > 0
    /\ \E req \in reqs : cur' = req
    /\ pc' = "busy"
    /\ waiting' = waiting - 1
    /\ clientClosed' = FALSE
    /\ console' = <<>>
    /\ response' = NoResponse
    /\ failure' = ""
    /\ escaped' = FALSE
    /\ wrote' = "none"
    /\ count0' = log_count
    /\ file0' = file
    /\ UNCHANGED <<log_count, save_to_file, file, arrived, ok200, fileFailures>>

\* the client of the request being handled closes its sending side
ClientClose ==
    /\ pc = "busy"
    /\ ~clientClosed
    /\ clientClosed' = TRUE
    /\ UNCHANGED <<log_count, save_to_file, file, console, pc, cur, waiting,
                   arrived, response, failure, escaped, wrote, count0, file0,
                   ok200, fileFailures>>

\* what a handler's outcome r does to the state
PostEffect(r) ==
    /\ log_count' = r.count
    /\ console' = r.out
    /\ file' = file \o r.app
    /\ wrote' = r.wrote
    /\ response' = r.response
    /\ failure' = r.failure
    /\ escaped' = r.escaped
    /\ ok200' = IF r.response.status = 200 THEN ok200 + 1 ELSE ok200
    /\ fileFailures' = IF r.wrote = "failed" THEN fileFailures + 1 ELSE fileFailures

GetEffect(r) ==
    /\ response' = r.response
    /\ failure' = r.failure
    /\ escaped' = r.escaped

\* the handler of a POST runs to its end; the server takes the next connection
do_POST ==
    /\ pc = "busy"
    /\ cur.method = "POST"
    /\ PostReady(cur, clientClosed)
    /\ \E ffail \in BOOLEAN : PostEffect(DoPost(cur, log_count, save_to_file, ffail))
    /\ pc' = "idle"
    /\ UNCHANGED <<save_to_file, cur, clientClosed, waiting, arrived, count0, file0>>

do_GET ==
    /\ pc = "busy"
    /\ cur.method = "GET"
    /\ GetEffect(DoGet(cur, log_count, save_to_file))
    /\ pc' = "idle"
    /\ UNCHANGED <<log_count, save_to_file, file, console, cur, clientClosed,
                   waiting, arrived, wrote, count0, file0, ok200, fileFailures>>

Next ==
    \/ Connect
    \/ Accept(Requests)
    \/ ClientClose
    \/ do_POST
    \/ do_GET

\* every client stays connected until it has its response
Spec == Init /\ [][Next]_vars

\* clients may drop the connection before the response is written
Dropped(r) == [r EXCEPT !.broken = TRUE]

IOBase ==
    {PostReq(Target("/test", ""), B_Full), PostReq(Target("/test", ""), B_Empty),
     PostReq(Target("/test", ""), B_Array), PostReq(Target("/test", ""), B_Garbage),
     PostReq(Target("/test", ""), B_NoBytes), PostReq(Target("/other", ""), B_Full),
     GetReq(Target("/status", "")), GetReq(Target("/other", ""))}

IORequests == IOBase \cup {Dropped(r) : r \in IOBase}

NextIO ==
    \/ Connect
    \/ Accept(IORequests)
    \/ ClientClose
    \/ do_POST
    \/ do_GET

SpecIO == Init /\ [][NextIO]_vars

\* The server side always takes its next step when it has one: serve_forever
\* loops, and a handler that is not blocked in a read runs on.  Nothing makes
\* a client send more bytes or close.
LiveRequests ==
    {PostReq(Target("/test", ""), B_Full), PostReq(Target("/test", ""), B_Garbage),
     Req("POST", Target("/test", ""), "int", B_Full.len + 1, B_Full, FALSE),
     Req("POST", Target("/test", ""), "int", -1, B_Empty, FALSE),
     Req("POST", Target("/test", ""), "absent", 0, B_Full, FALSE),
     PostReq(Target("/other", ""), B_Full),
     GetReq(Target("/status", "")), GetReq(Target("/other", ""))}

NextLive ==
    \/ Connect
    \/ Accept(LiveRequests)
    \/ ClientClose
    \/ do_POST
    \/ do_GET

LiveSpec ==
    /\ Init
    /\ [][NextLive]_vars
    /\ WF_vars(Accept(LiveRequests))
    /\ WF_vars(do_POST)
    /\ WF_vars(do_GET)

\* ================================================================== claims
\* a request has been handled and the server is back in serve_forever
Done == pc = "idle" /\ cur.method # ""

\* cur is a POST to the ingestion path
Ingest == cur.method = "POST" /\ UrlPath(cur.target) = "/test"

\* the Content-Length header of cur is the length of its body
WellFramed == cur.hdr = "int" /\ cur.cl = cur.body.len

\* the first console line of cur is the line of an accepted entry
EntryPrinted == console # <<>> /\ console[1].tag = "entry"

\* how the claims say field k of body b reads in the output
Want(b, k) == IF k \in b.keys THEN PyStr(b.vals[k]) ELSE NA

WantLocation(b) ==
    IF "line" \in b.keys
    THEN Want(b, "file") \o <<":">> \o Want(b, "function") \o <<":">> \o Want(b, "line")
    ELSE Want(b, "file") \o <<":">> \o Want(b, "function")

\* the line layout of the persisted file: [NNNN] [timestamp] [millis ms]
\* [LEVEL   ] [Core C] [location] message
WantLine(n, b) ==
    <<"[">> \o Pad04d(n) \o <<"]", SP, "[">> \o Want(b, "timestamp")
        \o <<"]", SP, "[">> \o Want(b, "millis") \o <<SP, "m", "s", "]", SP, "[">>
        \o Pad8s(Want(b, "level")) \o <<"]", SP, "[", "C", "o", "r", "e", SP>>
        \o Want(b, "core") \o <<"]", SP, "[">> \o WantLocation(b) \o <<"]", SP>>
        \o Want(b, "message")

KnownColors ==
    {<<>>, <<ESC, "[", "3", "7", "m">>, <<ESC, "[", "3", "6", "m">>,
     <<ESC, "[", "3", "2", "m">>, <<ESC, "[", "3", "3", "m">>,
     <<ESC, "[", "3", "1", "m">>, <<ESC, "[", "3", "5", "m">>}

\* C1: a POST to /test whose body is a valid JSON object, whatever the types
\* of its values, is answered 200 and raises log_count by exactly 1.
C1_ObjectAccepted ==
    (Done /\ Ingest /\ WellFramed /\ cur.body.kind = "object")
        => (response.status = 200 /\ log_count = count0 + 1)

\* C2: GET /status reports logs_received equal to the number of earlier
\* POSTs to /test that were answered 200.
C2_StatusCountsAccepted ==
    (Done /\ cur.method = "GET" /\ PathIs(cur.target, "/status"))
        => (response.status = 200 /\ response.logs_received = ok200)

\* C3: a POST to /test with an empty body (Content-Length 0 or absent) or a
\* body that is not valid JSON (bytes that are not UTF-8 included) is
\* answered 400, leaves log_count unchanged and writes to neither sink.
C3_MalformedRejected ==
    (Done /\ Ingest
          /\ \/ cur.hdr # "nonint" /\ ContentLength(cur) = 0
             \/ cur.hdr # "nonint" /\ cur.body.kind \in {"empty", "garbage", "badutf8"})
        => (response.status = 400 /\ log_count = count0 /\ console = <<>>
                /\ file = file0)

\* C4: log_count never decreases, and a request that is not answered 200
\* from /test leaves it exactly as it was.
C4_CountOnlyOnAccept ==
    /\ log_count >= count0
    /\ (Done /\ ~(Ingest /\ response.status = 200)) => log_count = count0

\* C5: when the append to the file fails, the failure is only reported on
\* the console: the request is answered 200, log_count has gone up by 1 and
\* the console line of the entry has been printed.
C5_FileFailureTolerated ==
    (Done /\ wrote = "failed")
        => /\ response.status = 200
           /\ failure = ""
           /\ log_count = count0 + 1
           /\ Len(console) = 2
           /\ console[1].tag = "entry"
           /\ EndsWith(console[1].text, Want(cur.body, "message") \o reset_color)
           /\ console[2].tag = "file_error"
           /\ file = file0

C5_Witness ==
    Done /\ save_to_file /\ wrote = "failed" /\ cur.body.kind = "object"
         /\ response.status = 200

\* C6: with the file sink on and no failed append, the file holds exactly one
\* line per POST answered 200, each ended by a newline, and no colour escape
\* sequence, whatever the fields of the entries contain.
C6_OneLinePerEntry ==
    (save_to_file /\ fileFailures = 0)
        => /\ Count(file, LF) = ok200
           /\ ~Contains(file, ESC)
           /\ (file = <<>> \/ file[Len(file)] = LF)

\* C7: a failure that ends a handler's normal path, in do_POST or in do_GET,
\* is answered with a 500 that carries its description, and the server
\* returns to serving.
C7_FailureAnswered500 ==
    (Done /\ failure # "")
        => (response.status = 500 /\ response.e = failure)

\* C8: every request the server has taken gets its response in the end, for
\* every Content-Length value, and so the connections waiting behind it are
\* taken too.
C8_NoBlocking ==
    /\ (pc = "busy") ~> (pc = "idle")
    /\ (waiting > 0) ~> (waiting = 0)

\* C9: in the line of every accepted entry, console and file, the location
\* is file:function when the key line is absent and file:function:line when
\* it is present, whatever its value (null included).
C9_LocationByPresence ==
    EntryPrinted
        => /\ EndsWith(console[1].text,
                       <<"[">> \o WantLocation(cur.body) \o <<"]", SP>>
                           \o Want(cur.body, "message") \o reset_color)
           /\ wrote = "ok"
                => EndsWith(file,
                            <<"[">> \o WantLocation(cur.body) \o <<"]", SP>>
                                \o Want(cur.body, "message") \o <<LF>>)

C9_Witness ==
    /\ Done /\ EntryPrinted /\ wrote = "ok"
    /\ "line" \in cur.body.keys /\ cur.body.vals["line"] = JNull
    /\ EndsWith(console[1].text,
                <<":", "N", "o", "n", "e", "]", SP, "N", "/", "A">> \o reset_color)

\* C10: in the line of every accepted entry, each of timestamp, millis,
\* level, core, file, function and message whose key is missing reads N/A
\* (level in its fixed width of 8); for {} every one of them reads N/A.
C10_MissingReadsNA ==
    EntryPrinted
        => /\ \E c \in KnownColors :
                console[1].text = c \o WantLine(log_count, cur.body) \o reset_color
           /\ wrote = "ok" => EndsWith(file, WantLine(log_count, cur.body) \o <<LF>>)
           /\ cur.body.keys = {}
                => console[1].text =
                       <<"[">> \o Pad04d(log_count)
                           \o <<"]", SP, "[", "N", "/", "A", "]", SP,
                                "[", "N", "/", "A", SP, "m", "s", "]", SP,
                                "[", "N", "/", "A", SP, SP, SP, SP, SP, "]", SP,
                                "[", "C", "o", "r", "e", SP, "N", "/", "A", "]", SP,
                                "[", "N", "/", "A", ":", "N", "/", "A", "]", SP,
                                "N", "/", "A", ESC, "[", "0", "m">>

C10_Witness ==
    Done /\ EntryPrinted /\ cur.body.keys = {} /\ response.status = 200
         /\ wrote = "ok"

====
